---- MODULE Spec2Model ----
(***************************************************************************)
(* file-server-go: the upload (PUT), download (GET) and list handlers of   *)
(* pkg/fileserver, the in-memory FileDB, its sorted listing, the startup   *)
(* scan of NewFileService and the backing directory.                       *)
(*                                                                         *)
(* Strings are sequences of tokens, so that the path arithmetic of the     *)
(* code (DefaultStoragePath + "/" + fileName, filePath += "-temp") is      *)
(* sequence concatenation.  The backing directory is a table from paths   *)
(* to inodes and a table from inodes to bytes: an open file keeps its      *)
(* inode across os.Rename and os.Remove of its path.  Each handler runs    *)
(* on its own goroutine; one action is one access to shared state (the     *)
(* map, a mutex, the directory, a file) with the local code around it.     *)
(***************************************************************************)
EXTENDS Integers, Sequences, FiniteSets, TLC

\* ---------------------------------------------------------------- bounds
NPuts  == 2     \* upload requests (goroutines) of one run
NGets  == 1     \* download requests of one run
MaxLen == 2     \* longest request body, in bytes
BufSize == 1    \* bytes moved by one Read/Write pair of io.Copy
InitLen == 2    \* size of a file found in the directory at startup
MaxSort == 3    \* most names in a FileDB handed to GetFileList

Puts == 1..NPuts
Gets == 1..NGets

\* ---------------------------------------------------------------- names
DefaultStoragePath == <<"files">>
TempSuffix == <<"-temp">>
NameSeq == << <<"a">>, <<"a", "-temp">>, <<"b">> >>
Names == {NameSeq[k] : k \in 1..Len(NameSeq)}
NameIdx(n) == CHOOSE k \in 1..Len(NameSeq) : NameSeq[k] = n

\* filePath := DefaultStoragePath + "/" + fileName
FinalPath(n) == DefaultStoragePath \o <<"/">> \o n
\* filePath += "-temp" when the name was found in the DB
StagePath(n, fnd) == IF fnd THEN FinalPath(n) \o TempSuffix ELSE FinalPath(n)

\* identities: the mutex of the FileObject made by upload p is p, the
\* inode created by upload p is p; what NewFileService finds on disk for
\* NameSeq[k] has inode NPuts + k and its FileObject has mutex NPuts + k.
BootId(n) == NPuts + NameIdx(n)
NoFile == 0
\* a subdirectory of the storage directory found at startup under the name
\* NameSeq[k] has an inode above those of the files
BootDirId(n) == NPuts + Len(NameSeq) + NameIdx(n)
IsDir(i) == i > NPuts + Len(NameSeq)

\* a byte is <<writer, position in the writer's stream>>
Payload(w, len) == [i \in 1..len |-> <<w, i>>]

VARIABLES
  svc,        \* "new" | "up" | "failed": NewFileService not run, returned a service, returned an error
  DB,         \* FileService.DB: fileName -> FileObject [Mu, Path]
  MuHeld,     \* the FileObject mutexes that are write-locked
  dir,        \* backing directory: path -> inode
  data,       \* inode -> bytes
  upc,        \* per upload: position in the handler
  uname,      \* per upload: fileName
  udecl,      \* per upload: r.ContentLength
  ufound,     \* per upload: found
  uobj,       \* per upload: fileObj
  ufd,        \* per upload: localFile (inode) or NoFile
  uwritten,   \* per upload: bytes copied so far
  ustatus,    \* per upload: response status, 0 before the first WriteHeader
  gpc, gname, gobj, gsize, gfd, goff, gbody, gstatus,   \* per download
  lpc,        \* the list request: "idle" | "done"
  lfiles,     \* list: fileList, the keys of the DB in the order of the range loop
  lbody,      \* list: the response body
  lstatus,    \* list: response status, 0 before the first write
  sortIn,     \* GetFileList: fileList as the range loop over the map left it
  sortOut,    \* GetFileList: the slice returned
  sortDone,   \* GetFileList has returned
  spc,        \* Start: "idle" | "spawned" (the go statement is done) | "ret"
  lsn,        \* the goroutine of Start: "none" | "listening" | "failed" | "stored"
  serr,       \* Start: its variable err, "nil" or "err"
  sret,       \* Start: what it returned, "none" before
  lastCommit, \* history: fileName -> the upload that committed it last
  gquiet      \* history: no upload of the download's name was in flight since it began

uvars == <<upc, uname, udecl, ufound, uobj, ufd, uwritten, ustatus>>
gvars == <<gpc, gname, gobj, gsize, gfd, goff, gbody, gstatus>>
lvars == <<lpc, lfiles, lbody, lstatus>>
svars == <<sortIn, sortOut, sortDone>>
tvars == <<spc, lsn, serr, sret>>
vars == <<svc, DB, MuHeld, dir, data, uvars, gvars, lvars, svars, tvars,
          lastCommit, gquiet>>

NoObj == [Mu |-> 0, Path |-> <<>>]

InFlight(p) == upc[p] \notin {"idle", "done"}

\* ---------------------------------------------------------------- Init
\* Before NewFileService: no service, an empty DB, no request begun.
InitRequests ==
  /\ svc = "new"
  /\ DB = << >>
  /\ MuHeld = {}
  /\ upc = [p \in Puts |-> "idle"]
  /\ uname = [p \in Puts |-> <<>>]
  /\ udecl = [p \in Puts |-> 0]
  /\ ufound = [p \in Puts |-> FALSE]
  /\ uobj = [p \in Puts |-> NoObj]
  /\ ufd = [p \in Puts |-> NoFile]
  /\ uwritten = [p \in Puts |-> 0]
  /\ ustatus = [p \in Puts |-> 0]
  /\ gpc = [g \in Gets |-> "idle"]
  /\ gname = [g \in Gets |-> <<>>]
  /\ gobj = [g \in Gets |-> NoObj]
  /\ gsize = [g \in Gets |-> 0]
  /\ gfd = [g \in Gets |-> NoFile]
  /\ goff = [g \in Gets |-> 0]
  /\ gbody = [g \in Gets |-> <<>>]
  /\ gstatus = [g \in Gets |-> 0]
  /\ lpc = "idle"
  /\ lfiles = <<>>
  /\ lbody = <<>>
  /\ lstatus = 0
  /\ spc = "idle"
  /\ lsn = "none"
  /\ serr = "nil"
  /\ sret = "none"
  /\ lastCommit = << >>
  /\ gquiet = [g \in Gets |-> FALSE]

NoSort ==
  /\ sortIn = <<>>
  /\ sortOut = <<>>
  /\ sortDone = FALSE

\* The backing directory holds any set of files named by Names, each of
\* InitLen bytes.
Init ==
  /\ InitRequests
  /\ NoSort
  /\ \E present \in SUBSET Names :
       /\ dir = [q \in {FinalPath(n) : n \in present} |->
                   BootId(CHOOSE n \in present : FinalPath(n) = q)]
       /\ data = [i \in {BootId(n) : n \in present} |-> Payload(i, InitLen)]

\* The backing directory as a restart finds it: under each name of Names
\* nothing, a file of InitLen bytes, or a subdirectory.
EntryId(n, kind) == IF kind = "dir" THEN BootDirId(n) ELSE BootId(n)
InitBoot ==
  /\ InitRequests
  /\ NoSort
  /\ \E kind \in [Names -> {"none", "file", "dir"}] :
       LET present == {n \in Names : kind[n] # "none"} IN
       /\ dir = [q \in {FinalPath(n) : n \in present} |->
                   LET n == CHOOSE m \in present : FinalPath(m) = q
                   IN  EntryId(n, kind[n])]
       /\ data = [i \in {EntryId(n, kind[n]) : n \in present} |->
                    IF IsDir(i) THEN <<>> ELSE Payload(i, InitLen)]

\* ---------------------------------------------------------------- NewFileService
\* Reconcile with the entry's bare name as the path
ReconcileBareName(d) ==
  [n \in {m \in Names : FinalPath(m) \in DOMAIN d} |->
     [Mu |-> BootId(n), Path |-> n]]

\* os.Open / Readdir of the storage directory, one FileObject per entry.
Reconcile(d) ==
  [n \in {m \in Names : FinalPath(m) \in DOMAIN d} |->
     [Mu |-> BootId(n), Path |-> DefaultStoragePath \o <<"/">> \o n]]

NewFileService ==
  /\ svc = "new"
  /\ \/ /\ svc' = "up"
        /\ DB' = Reconcile(dir)
     \/ /\ svc' = "failed"
        /\ DB' = DB
  /\ UNCHANGED <<lvars, svars, tvars>>
  /\ UNCHANGED <<MuHeld, dir, data, uvars, gvars, lastCommit, gquiet>>

\* main starts the listener only when NewFileService returned no error
\* (main.go lines 59-69): requests reach the handlers of a service that is up.
ServingAnyway == svc # "new"
Serving == svc = "up"

\* ---------------------------------------------------------------- file system
Max(a, b) == IF a > b THEN a ELSE b
Min(a, b) == IF a < b THEN a ELSE b

\* File.Write of chunk at offset off of a file opened without O_TRUNC and
\* without O_APPEND: the bytes under the chunk are replaced, the rest stay.
WriteAt(old, off, chunk) ==
  [i \in 1..Max(Len(old), off + Len(chunk)) |->
     IF i > off /\ i <= off + Len(chunk) THEN chunk[i - off] ELSE old[i]]

\* os.Remove(path): the directory entry goes, an error is ignored.
Remove(d, path) == [q \in DOMAIN d \ {path} |-> d[q]]

\* os.Rename(from, to), from present: to names from's inode, from is gone.
Rename(d, from, to) ==
  [q \in (DOMAIN d \ {from}) \cup {to} |-> IF q = to THEN d[from] ELSE d[q]]

\* ---------------------------------------------------------------- upload
\* uploadBegin without the ContentLength check of lines 185-190
uploadBeginUnchecked(p, n, len) ==
  /\ Serving
  /\ upc[p] = "idle"
  /\ uname' = [uname EXCEPT ![p] = n]
  /\ udecl' = [udecl EXCEPT ![p] = len]
  /\ ufound' = [ufound EXCEPT ![p] = n \in DOMAIN DB]
  /\ uobj' = [uobj EXCEPT ![p] =
       IF n \in DOMAIN DB THEN DB[n] ELSE [Mu |-> p, Path |-> FinalPath(n)]]
  /\ upc' = [upc EXCEPT ![p] = "lock"]
  /\ gquiet' = [g \in Gets |-> gquiet[g] /\ gname[g] # n]
  /\ UNCHANGED <<lvars, svars, tvars>>
  /\ UNCHANGED <<svc, DB, MuHeld, dir, data, ufd, uwritten, ustatus, gvars, lastCommit>>

\* uploadBegin that puts the FileObject of a new name in the DB at once
uploadBeginIndexing(p, n, len) ==
  /\ Serving
  /\ upc[p] = "idle"
  /\ len > 0
  /\ uname' = [uname EXCEPT ![p] = n]
  /\ udecl' = [udecl EXCEPT ![p] = len]
  /\ gquiet' = [g \in Gets |-> gquiet[g] /\ gname[g] # n]
  /\ ufound' = [ufound EXCEPT ![p] = n \in DOMAIN DB]
  /\ uobj' = [uobj EXCEPT ![p] =
       IF n \in DOMAIN DB THEN DB[n] ELSE [Mu |-> p, Path |-> FinalPath(n)]]
  /\ DB' = [m \in DOMAIN DB \cup {n} |-> IF m = n THEN uobj'[p] ELSE DB[m]]
  /\ upc' = [upc EXCEPT ![p] = "lock"]
  /\ UNCHANGED <<lvars, svars, tvars>>
  /\ UNCHANGED <<svc, MuHeld, dir, data, ufd, uwritten, ustatus, gvars, lastCommit>>

\* lines 177-209: the ContentLength check, the DB lookup, the FileObject.
uploadBegin(p, n, len) ==
  /\ Serving
  /\ upc[p] = "idle"
  /\ uname' = [uname EXCEPT ![p] = n]
  /\ udecl' = [udecl EXCEPT ![p] = len]
  /\ IF len = 0
       THEN /\ ustatus' = [ustatus EXCEPT ![p] = 400]
            /\ upc' = [upc EXCEPT ![p] = "done"]
            /\ UNCHANGED <<ufound, uobj, gquiet>>
       ELSE /\ ufound' = [ufound EXCEPT ![p] = n \in DOMAIN DB]
            /\ uobj' = [uobj EXCEPT ![p] =
                 IF n \in DOMAIN DB THEN DB[n]
                                    ELSE [Mu |-> p, Path |-> FinalPath(n)]]
            /\ upc' = [upc EXCEPT ![p] = "lock"]
            /\ gquiet' = [g \in Gets |-> gquiet[g] /\ gname[g] # n]
            /\ UNCHANGED ustatus
  /\ UNCHANGED <<lvars, svars, tvars>>
  /\ UNCHANGED <<svc, DB, MuHeld, dir, data, ufd, uwritten, gvars, lastCommit>>

\* the mutex an upload locks: the one of its FileObject (fileObj.Mu)
LockOfGlobal(p) == 0
LockOf(p) == uobj[p].Mu

\* uploadLock that locks only for a file that was found in the DB
uploadLockIfFound(p) ==
  /\ upc[p] = "lock"
  /\ IF ufound[p]
       THEN /\ LockOf(p) \notin MuHeld
            /\ MuHeld' = MuHeld \cup {LockOf(p)}
       ELSE MuHeld' = MuHeld
  /\ upc' = [upc EXCEPT ![p] = "open"]
  /\ UNCHANGED <<lvars, svars, tvars>>
  /\ UNCHANGED <<svc, DB, dir, data, uname, udecl, ufound, uobj, ufd, uwritten,
                 ustatus, gvars, lastCommit, gquiet>>

\* line 211: fileObj.Mu.Lock()
uploadLock(p) ==
  /\ upc[p] = "lock"
  /\ LockOf(p) \notin MuHeld
  /\ MuHeld' = MuHeld \cup {LockOf(p)}
  /\ upc' = [upc EXCEPT ![p] = "open"]
  /\ UNCHANGED <<lvars, svars, tvars>>
  /\ UNCHANGED <<svc, DB, dir, data, uname, udecl, ufound, uobj, ufd, uwritten,
                 ustatus, gvars, lastCommit, gquiet>>

\* lines 217-223: os.OpenFile(filePath, O_CREATE|O_WRONLY), which may fail
\* (and does on a directory, as on "files/", the path of the empty name).
uploadOpen(p) ==
  /\ upc[p] = "open"
  /\ LET path == StagePath(uname[p], ufound[p]) IN
     \/ /\ path \in DOMAIN dir
        /\ ~IsDir(dir[path])
        /\ ufd' = [ufd EXCEPT ![p] = dir[path]]
        /\ upc' = [upc EXCEPT ![p] = "copy"]
        /\ UNCHANGED <<dir, data, ustatus>>
     \/ /\ path \notin DOMAIN dir
        /\ path # DefaultStoragePath \o <<"/">>
        /\ dir' = [q \in DOMAIN dir \cup {path} |-> IF q = path THEN p ELSE dir[q]]
        /\ data' = [i \in DOMAIN data \cup {p} |-> IF i = p THEN <<>> ELSE data[i]]
        /\ ufd' = [ufd EXCEPT ![p] = p]
        /\ upc' = [upc EXCEPT ![p] = "copy"]
        /\ UNCHANGED ustatus
     \/ /\ ustatus' = [ustatus EXCEPT ![p] = 500]
        /\ upc' = [upc EXCEPT ![p] = "ret"]
        /\ UNCHANGED <<dir, data, ufd>>
  /\ UNCHANGED <<lvars, svars, tvars>>
  /\ UNCHANGED <<svc, DB, MuHeld, uname, udecl, ufound, uobj, uwritten,
                 gvars, lastCommit, gquiet>>

\* uploadCopy that reads the rest of the declared body at once
uploadCopyWhole(p, k) ==
  /\ upc[p] = "copy"
  /\ uwritten[p] < udecl[p]
  /\ data' = [data EXCEPT ![ufd[p]] =
       WriteAt(@, uwritten[p], [i \in 1..(udecl[p] - uwritten[p]) |-> <<p, uwritten[p] + i>>])]
  /\ uwritten' = [uwritten EXCEPT ![p] = udecl[p]]
  /\ UNCHANGED <<lvars, svars, tvars>>
  /\ UNCHANGED <<svc, DB, MuHeld, dir, upc, uname, udecl, ufound, uobj, ufd,
                 ustatus, gvars, lastCommit, gquiet>>

\* line 231, one round of io.Copy: k bytes read from r.Body and written
\* to localFile at its offset.
uploadCopy(p, k) ==
  /\ upc[p] = "copy"
  /\ uwritten[p] + k <= MaxLen
  /\ data' = [data EXCEPT ![ufd[p]] =
       WriteAt(@, uwritten[p], [i \in 1..k |-> <<p, uwritten[p] + i>>])]
  /\ uwritten' = [uwritten EXCEPT ![p] = @ + k]
  /\ UNCHANGED <<lvars, svars, tvars>>
  /\ UNCHANGED <<svc, DB, MuHeld, dir, upc, uname, udecl, ufound, uobj, ufd,
                 ustatus, gvars, lastCommit, gquiet>>

\* lines 232-239: io.Copy returns an error (the body or the disk failed).
uploadCopyErr(p) ==
  /\ upc[p] = "copy"
  /\ dir' = Remove(dir, StagePath(uname[p], ufound[p]))
  /\ ufd' = [ufd EXCEPT ![p] = NoFile]
  /\ ustatus' = [ustatus EXCEPT ![p] = 500]
  /\ upc' = [upc EXCEPT ![p] = "ret"]
  /\ UNCHANGED <<lvars, svars, tvars>>
  /\ UNCHANGED <<svc, DB, MuHeld, data, uname, udecl, ufound, uobj, uwritten,
                 gvars, lastCommit, gquiet>>

\* lines 246-279: the body ended; the byte count is verified and the upload
\* is committed (os.Rename of the temp file, or the DB insert of a new name).
uploadFinish(p) ==
  /\ upc[p] = "copy"
  /\ LET n == uname[p]
         path == StagePath(n, ufound[p]) IN
     \/ /\ uwritten[p] # udecl[p]
        /\ dir' = Remove(dir, path)
        /\ ustatus' = [ustatus EXCEPT ![p] = 500]
        /\ UNCHANGED <<DB, lastCommit>>
     \/ /\ uwritten[p] = udecl[p]
        /\ ufound[p]
        /\ path \in DOMAIN dir
        /\ FinalPath(n) \in DOMAIN dir => ~IsDir(dir[FinalPath(n)])
        /\ dir' = Rename(dir, path, DefaultStoragePath \o <<"/">> \o n)
        /\ ustatus' = [ustatus EXCEPT ![p] = 201]
        /\ lastCommit' = [m \in DOMAIN lastCommit \cup {n} |->
                            IF m = n THEN p ELSE lastCommit[m]]
        /\ UNCHANGED DB
     \/ /\ uwritten[p] = udecl[p]
        /\ ufound[p]
        /\ dir' = Remove(dir, path)
        /\ ustatus' = [ustatus EXCEPT ![p] = 500]
        /\ UNCHANGED <<DB, lastCommit>>
     \/ /\ uwritten[p] = udecl[p]
        /\ ~ufound[p]
        /\ DB' = [m \in DOMAIN DB \cup {n} |-> IF m = n THEN uobj[p] ELSE DB[m]]
        /\ ustatus' = [ustatus EXCEPT ![p] = 201]
        /\ lastCommit' = [m \in DOMAIN lastCommit \cup {n} |->
                            IF m = n THEN p ELSE lastCommit[m]]
        /\ UNCHANGED dir
  /\ ufd' = [ufd EXCEPT ![p] = NoFile]
  /\ upc' = [upc EXCEPT ![p] = "ret"]
  /\ UNCHANGED <<lvars, svars, tvars>>
  /\ UNCHANGED <<svc, MuHeld, data, uname, udecl, ufound, uobj, uwritten,
                 gvars, gquiet>>

\* uploadReturn without the deferred Unlock
uploadReturnKeepLock(p) ==
  /\ upc[p] = "ret"
  /\ upc' = [upc EXCEPT ![p] = "done"]
  /\ UNCHANGED <<lvars, svars, tvars>>
  /\ UNCHANGED <<svc, DB, MuHeld, dir, data, uname, udecl, ufound, uobj, ufd, uwritten,
                 ustatus, gvars, lastCommit, gquiet>>

\* line 212: the deferred fileObj.Mu.Unlock() as the handler returns.
uploadReturn(p) ==
  /\ upc[p] = "ret"
  /\ MuHeld' = MuHeld \ {LockOf(p)}
  /\ upc' = [upc EXCEPT ![p] = "done"]
  /\ UNCHANGED <<lvars, svars, tvars>>
  /\ UNCHANGED <<svc, DB, dir, data, uname, udecl, ufound, uobj, ufd, uwritten,
                 ustatus, gvars, lastCommit, gquiet>>

\* lines 246-273 for a new name: the byte count is verified and the handler
\* is at the map assignment of line 274, which it has begun.
uploadVerified(p) ==
  /\ upc[p] = "copy"
  /\ uwritten[p] = udecl[p]
  /\ ~ufound[p]
  /\ upc' = [upc EXCEPT ![p] = "insert"]
  /\ UNCHANGED <<lvars, svars, tvars>>
  /\ UNCHANGED <<svc, DB, MuHeld, dir, data, uname, udecl, ufound, uobj, ufd, uwritten,
                 ustatus, gvars, lastCommit, gquiet>>

\* lines 274-279: the map assignment s.DB[fileName] = fileObj is complete;
\* Close and status 201.
uploadInsert(p) ==
  /\ upc[p] = "insert"
  /\ DB' = [m \in DOMAIN DB \cup {uname[p]} |-> IF m = uname[p] THEN uobj[p] ELSE DB[m]]
  /\ ustatus' = [ustatus EXCEPT ![p] = 201]
  /\ lastCommit' = [m \in DOMAIN lastCommit \cup {uname[p]} |->
                      IF m = uname[p] THEN p ELSE lastCommit[m]]
  /\ ufd' = [ufd EXCEPT ![p] = NoFile]
  /\ upc' = [upc EXCEPT ![p] = "ret"]
  /\ UNCHANGED <<lvars, svars, tvars>>
  /\ UNCHANGED <<svc, MuHeld, dir, data, uname, udecl, ufound, uobj, uwritten,
                 gvars, gquiet>>

upload(p) ==
  \/ \E n \in Names, len \in 0..MaxLen : uploadBegin(p, n, len)
  \/ uploadLock(p)
  \/ uploadOpen(p)
  \/ \E k \in 1..BufSize : uploadCopy(p, k)
  \/ uploadCopyErr(p)
  \/ uploadFinish(p)
  \/ uploadReturn(p)

\* ---------------------------------------------------------------- download
\* ResponseWriter.WriteHeader(code): the first status written is the
\* response's; a later call is superfluous and ignored.
WriteHeader(cur, code) == IF cur = 0 THEN code ELSE cur

\* downloadBegin that looks for the file on disk when the DB has no entry
downloadBeginByDisk(g, n) ==
  /\ Serving
  /\ gpc[g] = "idle"
  /\ gname' = [gname EXCEPT ![g] = n]
  /\ gquiet' = [gquiet EXCEPT ![g] = \A p \in Puts : ~(InFlight(p) /\ uname[p] = n)]
  /\ IF n \in DOMAIN DB \/ FinalPath(n) \in DOMAIN dir
       THEN /\ gobj' = [gobj EXCEPT ![g] =
                 IF n \in DOMAIN DB THEN DB[n] ELSE [Mu |-> 0, Path |-> FinalPath(n)]]
            /\ gpc' = [gpc EXCEPT ![g] = "stat"]
            /\ UNCHANGED gstatus
       ELSE /\ gstatus' = [gstatus EXCEPT ![g] = WriteHeader(@, 404)]
            /\ gpc' = [gpc EXCEPT ![g] = "done"]
            /\ UNCHANGED gobj
  /\ UNCHANGED <<lvars, svars, tvars>>
  /\ UNCHANGED <<svc, DB, MuHeld, dir, data, uvars, gsize, gfd, goff, gbody, lastCommit>>

\* downloadBegin that makes the FileObject of an unknown name (a
\* get-or-create in place of the lookup)
downloadBeginCreating(g, n) ==
  /\ Serving
  /\ gpc[g] = "idle"
  /\ gname' = [gname EXCEPT ![g] = n]
  /\ gquiet' = [gquiet EXCEPT ![g] = \A p \in Puts : ~(InFlight(p) /\ uname[p] = n)]
  /\ DB' = [m \in DOMAIN DB \cup {n} |->
              IF m \in DOMAIN DB THEN DB[m] ELSE [Mu |-> BootId(n), Path |-> FinalPath(n)]]
  /\ gobj' = [gobj EXCEPT ![g] = DB'[n]]
  /\ gpc' = [gpc EXCEPT ![g] = "stat"]
  /\ UNCHANGED <<lvars, svars, tvars>>
  /\ UNCHANGED <<svc, MuHeld, dir, data, uvars, gstatus, gsize, gfd, goff, gbody, lastCommit>>

\* gbody is the file bytes sent to the client; the text of an error answer
\* is not kept, gstatus tells it.
\* lines 283-295: the DB lookup; an unknown name is 404.
downloadBegin(g, n) ==
  /\ Serving
  /\ gpc[g] = "idle"
  /\ gname' = [gname EXCEPT ![g] = n]
  /\ gquiet' = [gquiet EXCEPT ![g] = \A p \in Puts : ~(InFlight(p) /\ uname[p] = n)]
  /\ IF n \in DOMAIN DB
       THEN /\ gobj' = [gobj EXCEPT ![g] = DB[n]]
            /\ gpc' = [gpc EXCEPT ![g] = "stat"]
            /\ UNCHANGED gstatus
       ELSE /\ gstatus' = [gstatus EXCEPT ![g] = WriteHeader(@, 404)]
            /\ gpc' = [gpc EXCEPT ![g] = "done"]
            /\ UNCHANGED gobj
  /\ UNCHANGED <<lvars, svars, tvars>>
  /\ UNCHANGED <<svc, DB, MuHeld, dir, data, uvars, gsize, gfd, goff, gbody, lastCommit>>

\* lines 297-305: os.Stat(fileObj.Path), the Content-Length header.
downloadStat(g) ==
  /\ gpc[g] = "stat"
  /\ IF gobj[g].Path \in DOMAIN dir
       THEN /\ gsize' = [gsize EXCEPT ![g] = Len(data[dir[gobj[g].Path]])]
            /\ gpc' = [gpc EXCEPT ![g] = "open"]
            /\ UNCHANGED gstatus
       ELSE /\ gstatus' = [gstatus EXCEPT ![g] = WriteHeader(@, 500)]
            /\ gpc' = [gpc EXCEPT ![g] = "done"]
            /\ UNCHANGED gsize
  /\ UNCHANGED <<lvars, svars, tvars>>
  /\ UNCHANGED <<svc, DB, MuHeld, dir, data, uvars, gname, gobj, gfd, goff, gbody,
                 lastCommit, gquiet>>

\* lines 307-313: os.OpenFile(fileObj.Path, O_RDONLY).
downloadOpen(g) ==
  /\ gpc[g] = "open"
  /\ IF gobj[g].Path \in DOMAIN dir
       THEN /\ gfd' = [gfd EXCEPT ![g] = dir[gobj[g].Path]]
            /\ gpc' = [gpc EXCEPT ![g] = "copy"]
            /\ UNCHANGED gstatus
       ELSE /\ gstatus' = [gstatus EXCEPT ![g] = WriteHeader(@, 500)]
            /\ gpc' = [gpc EXCEPT ![g] = "done"]
            /\ UNCHANGED gfd
  /\ UNCHANGED <<lvars, svars, tvars>>
  /\ UNCHANGED <<svc, DB, MuHeld, dir, data, uvars, gname, gobj, gsize, goff, gbody,
                 lastCommit, gquiet>>

\* line 319, one round of io.Copy(w, localFile): up to BufSize bytes read
\* at the offset and written to the response.  The first Write sends the
\* header with status 200; a Write past the declared Content-Length fails
\* (http.ErrContentLength) and io.Copy returns the error (lines 320-325),
\* as it does when the Read fails because localFile is a directory.
downloadCopy(g) ==
  /\ gpc[g] = "copy"
  /\ IsDir(gfd[g]) \/ goff[g] < Len(data[gfd[g]])
  /\ LET k == Min(BufSize, Len(data[gfd[g]]) - goff[g])
         chunk == [i \in 1..k |-> data[gfd[g]][goff[g] + i]] IN
     IF IsDir(gfd[g]) \/ Len(gbody[g]) + k > gsize[g]
       THEN /\ gstatus' = [gstatus EXCEPT ![g] = WriteHeader(@, 500)]
            /\ gpc' = [gpc EXCEPT ![g] = "done"]
            /\ gfd' = [gfd EXCEPT ![g] = NoFile]
            /\ UNCHANGED <<gbody, goff>>
       ELSE /\ gstatus' = [gstatus EXCEPT ![g] = WriteHeader(@, 200)]
            /\ gbody' = [gbody EXCEPT ![g] = @ \o chunk]
            /\ goff' = [goff EXCEPT ![g] = @ + k]
            /\ UNCHANGED <<gpc, gfd>>
  /\ UNCHANGED <<lvars, svars, tvars>>
  /\ UNCHANGED <<svc, DB, MuHeld, dir, data, uvars, gname, gobj, gsize,
                 lastCommit, gquiet>>

\* lines 327-333: the file is at EOF; the byte count is compared with the
\* size of the stat, and the handler returns (status 200 if none was written).
downloadFinish(g) ==
  /\ gpc[g] = "copy"
  /\ ~IsDir(gfd[g])
  /\ goff[g] >= Len(data[gfd[g]])
  /\ gstatus' = [gstatus EXCEPT ![g] =
       IF Len(gbody[g]) # gsize[g] THEN WriteHeader(@, 500) ELSE WriteHeader(@, 200)]
  /\ gpc' = [gpc EXCEPT ![g] = "done"]
  /\ gfd' = [gfd EXCEPT ![g] = NoFile]
  /\ UNCHANGED <<lvars, svars, tvars>>
  /\ UNCHANGED <<svc, DB, MuHeld, dir, data, uvars, gname, gobj, gsize, goff, gbody,
                 lastCommit, gquiet>>

download(g) ==
  \/ \E n \in Names : downloadBegin(g, n)
  \/ downloadStat(g)
  \/ downloadOpen(g)
  \/ downloadCopy(g)
  \/ downloadFinish(g)

\* ---------------------------------------------------------------- list
\* strings.Join(elems, sep)
RECURSIVE Join(_, _)
Join(elems, sep) ==
  IF elems = <<>> THEN <<>>
  ELSE IF Len(elems) = 1 THEN elems[1]
  ELSE elems[1] \o sep \o Join(Tail(elems), sep)

\* for k := range m: every key once, in an order the runtime picks
RangeOver(keys) ==
  {fl \in [1..Cardinality(keys) -> keys] :
     \A i, j \in 1..Cardinality(keys) : fl[i] = fl[j] => i = j}

\* lines 157-169: the keys of the DB as the range loop yields them, joined
\* by "\n" with one more "\n" at the end; the Write sends status 200.
list ==
  /\ Serving
  /\ lpc = "idle"
  /\ \E fl \in RangeOver(DOMAIN DB) :
       /\ lfiles' = fl
       /\ lbody' = Join(fl, <<"\n">>) \o <<"\n">>
  /\ lstatus' = WriteHeader(lstatus, 200)
  /\ lpc' = "done"
  /\ UNCHANGED <<svc, DB, MuHeld, dir, data, uvars, gvars, svars, tvars, lastCommit, gquiet>>

\* ---------------------------------------------------------------- GetFileList
\* A file name as []rune; the names of Names spelled out.
RuneOf(tok) ==
  CASE tok = "a" -> <<97>>
    [] tok = "b" -> <<98>>
    [] tok = "-temp" -> <<45, 116, 101, 109, 112>>
RECURSIVE Runes(_)
Runes(n) == IF n = <<>> THEN <<>> ELSE RuneOf(Head(n)) \o Runes(Tail(n))

\* names handed to GetFileList: A.txt, a.txt, b.txt, Ab, ac, a, B
SortNames ==
  { <<65, 46, 116, 120, 116>>, <<97, 46, 116, 120, 116>>, <<98, 46, 116, 120, 116>>,
    <<65, 98>>, <<97, 99>>, <<97>>, <<66>> }

\* unicode.ToLower on the letters of ASCII
ToLower(r) == IF r >= 65 /\ r <= 90 THEN r + 32 ELSE r

\* lines 51-93, the less function given to sort.Slice: the loop over the
\* runes of the shorter word from index r on, then the lengths.
RECURSIVE LessFrom(_, _, _)
LessFrom(iRunes, jRunes, r) ==
  IF r > Min(Len(iRunes), Len(jRunes))
    THEN Len(iRunes) < Len(jRunes)
    ELSE IF ToLower(iRunes[r]) # ToLower(jRunes[r])
      THEN ToLower(iRunes[r]) < ToLower(jRunes[r])
      ELSE IF iRunes[r] # jRunes[r]
        THEN iRunes[r] > jRunes[r]
        ELSE LessFrom(iRunes, jRunes, r + 1)
Less(iRunes, jRunes) == LessFrom(iRunes, jRunes, 1)

\* sort.Slice(fileList, less) as an insertion sort
RECURSIVE Insert(_, _)
Insert(sl, x) ==
  IF sl = <<>> THEN <<x>>
  ELSE IF Less(x, Head(sl)) THEN <<x>> \o sl
  ELSE <<Head(sl)>> \o Insert(Tail(sl), x)
RECURSIVE SortSlice(_)
SortSlice(sl) ==
  IF sl = <<>> THEN <<>>
  ELSE Insert(SortSlice(SubSeq(sl, 1, Len(sl) - 1)), sl[Len(sl)])

\* lines 44-96: the keys listed by the range loop (sortIn), sorted.
GetFileList ==
  /\ ~sortDone
  /\ sortOut' = SortSlice(sortIn)
  /\ sortDone' = TRUE
  /\ UNCHANGED <<svc, DB, MuHeld, dir, data, uvars, gvars, lvars, tvars, sortIn,
                 lastCommit, gquiet>>

\* ---------------------------------------------------------------- Start
\* lines 339-341: the go statement; the goroutine has not run yet.
StartSpawn ==
  /\ svc = "up"
  /\ spc = "idle"
  /\ spc' = "spawned"
  /\ UNCHANGED <<lsn, serr, sret>>
  /\ UNCHANGED <<svc, DB, MuHeld, dir, data, uvars, gvars, lvars, svars,
                 lastCommit, gquiet>>

\* line 340, in the goroutine: ListenAndServe binds and serves, or returns
\* an error (the port is taken).
ListenAndServe ==
  /\ spc # "idle"
  /\ lsn = "none"
  /\ lsn' \in {"listening", "failed"}
  /\ UNCHANGED <<spc, serr, sret>>
  /\ UNCHANGED <<svc, DB, MuHeld, dir, data, uvars, gvars, lvars, svars,
                 lastCommit, gquiet>>

\* line 340, in the goroutine: the error returned is assigned to err.
StoreErr ==
  /\ lsn = "failed"
  /\ lsn' = "stored"
  /\ serr' = "err"
  /\ UNCHANGED <<spc, sret>>
  /\ UNCHANGED <<svc, DB, MuHeld, dir, data, uvars, gvars, lvars, svars,
                 lastCommit, gquiet>>

\* StartReturn that waits until the listener has bound or failed
StartReturnAfterBind ==
  /\ spc = "spawned"
  /\ lsn \in {"listening", "stored"}
  /\ sret' = serr
  /\ spc' = "ret"
  /\ UNCHANGED <<lsn, serr>>
  /\ UNCHANGED <<svc, DB, MuHeld, dir, data, uvars, gvars, lvars, svars,
                 lastCommit, gquiet>>

\* lines 342-346: err is read right after the go statement and returned.
StartReturn ==
  /\ spc = "spawned"
  /\ sret' = serr
  /\ spc' = "ret"
  /\ UNCHANGED <<lsn, serr>>
  /\ UNCHANGED <<svc, DB, MuHeld, dir, data, uvars, gvars, lvars, svars,
                 lastCommit, gquiet>>

Next ==
  \/ NewFileService
  \/ \E p \in Puts : upload(p)
  \/ \E g \in Gets : download(g)

Spec == Init /\ [][Next]_vars

\* A restart: NewFileService over what the directory holds, then downloads
\* and the list, with no upload.
NextBoot ==
  \/ NewFileService
  \/ \E g \in Gets : download(g)
  \/ list

SpecBoot == InitBoot /\ [][NextBoot]_vars

\* The same over a directory of files only.
SpecList == Init /\ [][NextBoot]_vars

\* The uploads (the only handlers that lock) under fair scheduling, over a
\* directory that holds one file: a goroutine that can take a step takes
\* it, the request body of an upload ends (EOF or an error), and a
\* goroutine blocked in Mu.Lock() gets the mutex when it is free often
\* enough (sync.RWMutex hands a starving waiter the lock).
InitOne ==
  /\ InitRequests
  /\ NoSort
  /\ dir = [q \in {FinalPath(NameSeq[1])} |-> BootId(NameSeq[1])]
  /\ data = [i \in {BootId(NameSeq[1])} |-> Payload(i, InitLen)]

NextPuts ==
  \/ NewFileService
  \/ \E p \in Puts : upload(p)

Fairness ==
  /\ \A p \in Puts : SF_vars(uploadLock(p))
  /\ \A p \in Puts : WF_vars(uploadOpen(p))
  /\ \A p \in Puts : WF_vars(uploadFinish(p) \/ uploadCopyErr(p))
  /\ \A p \in Puts : WF_vars(uploadReturn(p))

SpecLive == InitOne /\ [][NextPuts]_vars /\ Fairness

\* A storage directory that starts empty.
InitFresh ==
  /\ InitRequests
  /\ NoSort
  /\ dir = << >>
  /\ data = << >>

\* File names the handlers take from the URL as they are (lines 177, 283):
\* the empty name of PUT /upload/ and a name with a parent-directory segment.
StrayNames == { <<>>, <<"..", "/", "b">> }

uploadStray(p) ==
  \/ \E n \in StrayNames, len \in 0..MaxLen : uploadBegin(p, n, len)
  \/ uploadLock(p)
  \/ uploadOpen(p)
  \/ \E k \in 1..BufSize : uploadCopy(p, k)
  \/ uploadCopyErr(p)
  \/ uploadFinish(p)
  \/ uploadReturn(p)

downloadStray(g) ==
  \/ \E n \in StrayNames : downloadBegin(g, n)
  \/ downloadStat(g)
  \/ downloadOpen(g)
  \/ downloadCopy(g)
  \/ downloadFinish(g)

NextNames ==
  \/ NewFileService
  \/ \E p \in Puts : uploadStray(p)
  \/ \E g \in Gets : downloadStray(g)

SpecNames == InitFresh /\ [][NextNames]_vars

\* All three handlers over a storage directory that starts empty, the map
\* assignment of an upload taken in one step or in two.
NextAll ==
  \/ NewFileService
  \/ \E p \in Puts : upload(p)
  \/ \E p \in Puts : uploadVerified(p)
  \/ \E p \in Puts : uploadInsert(p)
  \/ \E g \in Gets : download(g)
  \/ list

SpecAll == InitFresh /\ [][NextAll]_vars

\* NewFileService and Start, as main calls them.
NextStart ==
  \/ NewFileService
  \/ StartSpawn
  \/ ListenAndServe
  \/ StoreErr
  \/ StartReturn

SpecStart == InitBoot /\ [][NextStart]_vars

\* GetFileList on a FileDB of at most MaxSort names of SortNames, its keys
\* in any order of the range loop.
InitSort ==
  /\ InitRequests
  /\ dir = << >>
  /\ data = << >>
  /\ \E keys \in SUBSET SortNames :
       /\ Cardinality(keys) <= MaxSort
       /\ sortIn \in RangeOver(keys)
  /\ sortOut = <<>>
  /\ sortDone = FALSE

NextSort == GetFileList

SpecSort == InitSort /\ [][NextSort]_vars

\* ================================================================ claims
HoldsLock(p) == upc[p] \in {"open", "copy", "insert", "ret"}
Committed(p) == ustatus[p] = 201
SameName(p, q) == p # q /\ InFlight(p) /\ InFlight(q) /\ uname[p] = uname[q]

\* C1: a download of n that ran with no upload of n in flight since it began,
\* after some upload of n committed, answers 200 with exactly the payload of
\* the upload of n that committed last (same length, same bytes).
C1_RoundTrip ==
  \A g \in Gets :
    (gpc[g] = "done" /\ gquiet[g] /\ gname[g] \in DOMAIN lastCommit) =>
      /\ gstatus[g] = 200
      /\ gbody[g] = Payload(lastCommit[gname[g]], udecl[lastCommit[gname[g]]])

\* C2: while an upload that overwrites n (found) is in flight, the bytes at
\* n's final path change only by the rename that commits an overwrite of n;
\* and the final path of a name in the DB never holds a partial payload.
Whole(c) ==
  \/ \E n \in Names : c = Payload(BootId(n), InitLen)
  \/ \E p \in Puts : udecl[p] > 0 /\ c = Payload(p, udecl[p])
Present(d, path) == path \in DOMAIN d
NoPartialFinal ==
  \A n \in DOMAIN DB :
    Present(dir, FinalPath(n)) => Whole(data[dir[FinalPath(n)]])
Overwriting(n) == \E p \in Puts : InFlight(p) /\ ufound[p] /\ uname[p] = n
CommitsOverwrite(n) ==
  \E p \in Puts : /\ uname[p] = n /\ ufound[p] /\ upc[p] = "copy"
                  /\ upc'[p] = "ret" /\ ustatus'[p] = 201
FinalKept ==
  \A n \in Names :
    (Overwriting(n) /\ Present(dir, FinalPath(n)) /\ ~CommitsOverwrite(n)) =>
      /\ Present(dir', FinalPath(n))
      /\ data'[dir'[FinalPath(n)]] = data[dir[FinalPath(n)]]
\* C2: the final path is kept during an overwrite and never holds a partial payload
C2_OverwriteAtomic == [][FinalKept]_vars /\ []NoPartialFinal

\* C3: of two uploads of one name in flight together, at most one has its
\* staging file open; and when both have committed, the final path holds the
\* whole payload of one of them.
C3_OneWriterOnePayload ==
  \A p, q \in Puts :
    (p # q /\ uname[p] = uname[q] /\ udecl[p] > 0 /\ udecl[q] > 0) =>
      /\ ~(upc[p] = "copy" /\ upc[q] = "copy")
      /\ (upc[p] = "done" /\ upc[q] = "done" /\ Committed(p) /\ Committed(q)) =>
           /\ Present(dir, FinalPath(uname[p]))
           /\ data[dir[FinalPath(uname[p])]] \in
                {Payload(p, udecl[p]), Payload(q, udecl[q])}

\* C4: two uploads of one name that are in flight together work on the same
\* control block (the same mutex): the second one finds the first one's.
C4_OneBlockPerName ==
  \A p, q \in Puts : SameName(p, q) => uobj[p].Mu = uobj[q].Mu

\* C5: at most one upload per name is between Lock and Unlock.
C5_OneWriterPerName ==
  \A p, q \in Puts :
    (p # q /\ uname[p] = uname[q]) => ~(HoldsLock(p) /\ HoldsLock(q))

\* C6: an upload never waits for an upload of another name: as long as no
\* other upload of its name is in flight, its next step can be taken,
\* wherever the uploads of other names stand.
Alone(p) == \A q \in Puts : (q # p /\ InFlight(q)) => uname[q] # uname[p]
\* C6: an upload with no other upload of its name in flight is never blocked
C6_OtherNamesDoNotBlock ==
  \A p \in Puts : (InFlight(p) /\ Alone(p)) => ENABLED upload(p)
\* an upload has committed and returned while an upload of another name
\* still holds its own mutex
C6_Witness ==
  \E p, q \in Puts :
    /\ uname[p] # uname[q]
    /\ upc[q] \in {"open", "copy"}
    /\ upc[p] = "done" /\ Committed(p)
    /\ LockOf(q) \in MuHeld

\* C7: the step that ends an upload whose body was shorter than declared
\* answers 500, removes the staging file, and changes neither the DB nor
\* the bytes at the final path of a name that is in the DB.
EndsShort(p) ==
  upc[p] = "copy" /\ upc'[p] = "ret" /\ uwritten[p] < udecl[p]
\* C7: a short upload fails with 500 and leaves the DB and the committed object alone
C7_ShortBody ==
  [][\A p \in Puts : EndsShort(p) =>
       /\ ustatus'[p] = 500
       /\ DB' = DB /\ lastCommit' = lastCommit
       /\ (ufound[p] => ~Present(dir', StagePath(uname[p], TRUE)))
       /\ (uname[p] \in DOMAIN DB /\ Present(dir, FinalPath(uname[p]))) =>
            /\ Present(dir', FinalPath(uname[p]))
            /\ data'[dir'[FinalPath(uname[p])]] = data[dir[FinalPath(uname[p])]]
    ]_vars

\* C8: an upload with ContentLength 0 answers 400 in its first step, which
\* ends it and leaves the DB, the mutexes, the directory and the files alone.
C8_EmptyRejected ==
  [][\A p \in Puts : (upc[p] = "idle" /\ upc'[p] # "idle" /\ udecl'[p] = 0) =>
       /\ ustatus'[p] = 400
       /\ upc'[p] = "done"
       /\ ufd'[p] = NoFile
       /\ UNCHANGED <<DB, MuHeld, dir, data>>
    ]_vars
C8_Witness ==
  \E p \in Puts :
    /\ upc[p] = "done" /\ udecl[p] = 0 /\ ustatus[p] = 400
    /\ uname[p] \in DOMAIN DB

\* C9: when a failed upload returns, its mutex is free, the file it created
\* is no longer in the directory, and if its name was new to it, there is
\* neither a file at the final path nor a DB entry for the name.
ReturnsFailed(p) == upc[p] = "ret" /\ upc'[p] = "done" /\ ustatus[p] = 500
\* C9: a failed upload returns with its mutex free and nothing of it left behind
C9_FailureCleansUp ==
  [][\A p \in Puts : ReturnsFailed(p) =>
       /\ uobj[p].Mu \notin MuHeld'
       /\ \A q \in DOMAIN dir' : dir'[q] # p
       /\ ~ufound[p] =>
            /\ ~Present(dir', FinalPath(uname[p]))
            /\ uname[p] \notin DOMAIN DB'
    ]_vars

\* C10: every name some upload committed is in the DB with the final path
\* as its block's path, and the file there holds exactly the payload of the
\* upload that committed the name last (so its size is the declared length).
C10_IndexInvariant ==
  \A n \in DOMAIN lastCommit :
    /\ n \in DOMAIN DB
    /\ DB[n].Path = FinalPath(n)
    /\ Present(dir, DB[n].Path)
    /\ data[dir[DB[n].Path]] = Payload(lastCommit[n], udecl[lastCommit[n]])

\* C11: an upload never has open, as its staging file, the file at the final
\* path of another name that is in the DB: the staging path of n is no path
\* of a different name m.
C11_StagingDisjoint ==
  \A p \in Puts : \A m \in DOMAIN DB :
    (upc[p] = "copy" /\ m # uname[p] /\ Present(dir, FinalPath(m))) =>
      dir[FinalPath(m)] # ufd[p]

\* C12: the first step of a download of a name that is not in the DB answers
\* 404 and ends it, with no stat and no open, and leaves the DB, the mutexes,
\* the directory and the files alone.
C12_UnknownIs404 ==
  [][\A g \in Gets :
       (gpc[g] = "idle" /\ gpc'[g] # "idle" /\ gname'[g] \notin DOMAIN DB) =>
         /\ gstatus'[g] = 404
         /\ gpc'[g] = "done"
         /\ gfd'[g] = NoFile /\ gsize'[g] = gsize[g] /\ gbody'[g] = <<>>
         /\ UNCHANGED <<DB, MuHeld, dir, data>>
    ]_vars
\* a download answered 404 while a file of that name is on disk
C12_Witness ==
  \E g \in Gets :
    /\ gpc[g] = "done" /\ gstatus[g] = 404
    /\ gname[g] \notin DOMAIN DB
    /\ Present(dir, FinalPath(gname[g]))

\* C13: a download that ended with a body whose length is not the size of
\* its stat has status 500.
C13_MismatchIs500 ==
  \A g \in Gets :
    (gpc[g] = "done" /\ Len(gbody[g]) # gsize[g]) => gstatus[g] = 500

\* C14: no upload of a name commits while a download of that name is
\* between its stat and the end of its stream.
C14_NoCommitDuringGet ==
  [][\A g \in Gets, p \in Puts :
       (gpc[g] \in {"open", "copy"} /\ uname[p] = gname[g]
          /\ upc[p] = "copy" /\ upc'[p] = "ret") => ustatus'[p] # 201
    ]_vars

\* the order of the List contract: case-insensitive ascending; names that
\* differ only in case by code point, upper case first; a prefix first.
Fold(x) == [i \in DOMAIN x |-> ToLower(x[i])]
RECURSIVE LexLess(_, _, _)
LexLess(x, y, r) ==
  IF r > Min(Len(x), Len(y)) THEN Len(x) < Len(y)
  ELSE IF x[r] # y[r] THEN x[r] < y[r]
  ELSE LexLess(x, y, r + 1)
ContractLess(x, y) ==
  IF Fold(x) # Fold(y) THEN LexLess(Fold(x), Fold(y), 1) ELSE LexLess(x, y, 1)
InContractOrder(sl) ==
  \A i, j \in DOMAIN sl : i < j => ContractLess(sl[i], sl[j])

\* C15: the answer of list is status 200 and its body is the names of the
\* DB in the order of the List contract, joined by newlines, with a newline
\* at the end, whatever order the range loop took.
C15_ListSorted ==
  lpc = "done" =>
    /\ lstatus = 200
    /\ \E fl \in RangeOver(DOMAIN DB) :
         /\ InContractOrder([i \in DOMAIN fl |-> Runes(fl[i])])
         /\ lbody = Join(fl, <<"\n">>) \o <<"\n">>

\* C16: what GetFileList returns is in the order of the List contract, and
\* for b.txt, A.txt, a.txt it is A.txt, a.txt, b.txt.
C16_ListOrder ==
  sortDone =>
    /\ InContractOrder(sortOut)
    /\ ({sortIn[i] : i \in DOMAIN sortIn} =
          {<<98, 46, 116, 120, 116>>, <<65, 46, 116, 120, 116>>, <<97, 46, 116, 120, 116>>}
        => sortOut = << <<65, 46, 116, 120, 116>>, <<97, 46, 116, 120, 116>>,
                        <<98, 46, 116, 120, 116>> >>)

\* C17: list on an empty DB answers 200 with no names and a body of zero
\* bytes.
C17_EmptyList ==
  (lpc = "done" /\ DOMAIN DB = {}) =>
    /\ lstatus = 200
    /\ lfiles = <<>>
    /\ lbody = <<>>

\* the files (not the subdirectories) of the backing directory
Regular == {n \in Names : Present(dir, FinalPath(n)) /\ ~IsDir(dir[FinalPath(n)])}

\* C18: once NewFileService has returned the service, every file of the
\* backing directory is in the DB under its name and path; the list names
\* it, and a download of it answers 200 with the bytes on disk.
C18_RestartVisible ==
  /\ svc = "up" =>
       \A n \in Regular : n \in DOMAIN DB /\ DB[n].Path = FinalPath(n)
  /\ lpc = "done" =>
       \A n \in Regular : \E i \in DOMAIN lfiles : lfiles[i] = n
  /\ \A g \in Gets :
       (gpc[g] = "done" /\ gname[g] \in Regular) =>
         /\ gstatus[g] = 200
         /\ gbody[g] = data[dir[FinalPath(gname[g])]]
\* a file found at startup has been listed and downloaded in full
C18_Witness ==
  \E g \in Gets :
    /\ gpc[g] = "done" /\ gname[g] \in Regular
    /\ gbody[g] = Payload(BootId(gname[g]), InitLen)
    /\ lpc = "done" /\ \E i \in DOMAIN lfiles : lfiles[i] = gname[g]

\* C19: the DB NewFileService returns has one FileObject for each file of
\* the backing directory, under its name and with its path, and none for
\* a subdirectory.
C19_OnlyRegularIndexed ==
  svc = "up" =>
    /\ DOMAIN DB = Regular
    /\ \A n \in DOMAIN DB : DB[n].Path = FinalPath(n)

\* C20: when NewFileService returned an error there is no service: the DB
\* is empty and no upload, download or list has begun.
C20_NoServiceOnError ==
  svc = "failed" =>
    /\ DB = << >>
    /\ \A p \in Puts : upc[p] = "idle"
    /\ \A g \in Gets : gpc[g] = "idle"
    /\ lpc = "idle"
\* NewFileService has returned an error over a directory that holds files
C20_Witness == svc = "failed" /\ DOMAIN dir # {}

\* C21: an upload gets one status and keeps it: 201 exactly when, as it
\* answers, its name is in the DB and the file at the final path is its
\* payload; 400 exactly when the declared length is 0; 500 otherwise.
C21_StatusExact ==
  [][\A p \in Puts :
       /\ ustatus[p] # 0 => ustatus'[p] = ustatus[p]
       /\ (ustatus[p] = 0 /\ ustatus'[p] # 0) =>
            /\ ustatus'[p] \in {201, 400, 500}
            /\ ustatus'[p] = 400 <=> udecl'[p] = 0
            /\ ustatus'[p] = 201 <=>
                 /\ uname'[p] \in DOMAIN DB'
                 /\ Present(dir', FinalPath(uname'[p]))
                 /\ data'[dir'[FinalPath(uname'[p])]] = Payload(p, udecl'[p])
    ]_vars

\* C26: a name in the DB stays in the DB with the same FileObject (same
\* mutex, same path) at every step.
C26_BlocksStable ==
  [][\A n \in DOMAIN DB : n \in DOMAIN DB' /\ DB'[n] = DB[n]]_vars

\* C25: every step of an upload that opens, creates, writes, renames or
\* removes a file is taken while that upload holds the mutex of its
\* FileObject, locked before its first disk action; nothing else changes
\* the directory or a file.
DiskStep(p) ==
  \/ ufd'[p] # ufd[p]
  \/ uwritten'[p] # uwritten[p]
  \/ upc[p] \in {"open", "copy"} /\ upc'[p] # upc[p]
C27_BoundedCopy ==
  [][/\ \A p \in Puts :
          uwritten'[p] # uwritten[p] =>
            LET k == uwritten'[p] - uwritten[p] IN
            /\ k \in 1..BufSize
            /\ data'[ufd[p]] =
                 WriteAt(data[ufd[p]], uwritten[p], [i \in 1..k |-> <<p, uwritten[p] + i>>])
     /\ \A g \in Gets :
          gbody'[g] # gbody[g] =>
            /\ Len(gbody'[g]) - Len(gbody[g]) \in 1..BufSize
            /\ goff'[g] - goff[g] = Len(gbody'[g]) - Len(gbody[g])
            /\ SubSeq(gbody'[g], 1, Len(gbody[g])) = gbody[g]
    ]_vars
\* an upload of MaxLen bytes has been copied in more than one round and a
\* download has sent a file of more than BufSize bytes
C27_Witness ==
  /\ \E p \in Puts : upc[p] = "copy" /\ uwritten[p] = MaxLen /\ MaxLen > BufSize
  /\ \E g \in Gets : gpc[g] = "done" /\ Len(gbody[g]) > BufSize

\* C28: Start never waits for the listener: once the goroutine is spawned
\* Start can return, it returns nil whenever err has not been assigned,
\* and it returns an error only if ListenAndServe failed before the read.
C28_StartDoesNotWait ==
  /\ spc = "spawned" => ENABLED StartReturn
  /\ (spc = "ret" /\ sret = "err") => lsn = "stored"
  /\ (spc = "ret" /\ lsn \in {"none", "listening", "failed"}) => sret = "nil"
\* Start has returned nil and ListenAndServe has failed
C28_Witness == spc = "ret" /\ sret = "nil" /\ lsn \in {"failed", "stored"}

\* C24: while an upload is in the map assignment that inserts its name, no
\* other upload is in or enters its own, and no other upload or download
\* does its DB lookup and the list does not range over the DB.
C24_IndexExclusive ==
  [][\A p \in Puts :
       upc[p] = "insert" =>
         /\ \A q \in Puts \ {p} :
              /\ upc'[q] # "insert"
              /\ upc[q] = "idle" => upc'[q] # "lock"
         /\ \A g \in Gets : gpc[g] = "idle" => gpc'[g] = "idle"
         /\ lpc' = lpc
    ]_vars

\* C29: a step of a download or of the list leaves the DB, the mutexes,
\* the directory and every file as they are.
C29_ReadOnly ==
  [][(gvars' # gvars \/ lvars' # lvars) => UNCHANGED <<DB, MuHeld, dir, data>>]_vars
\* a download has failed with 404, and the list has answered, while an
\* upload holds a mutex and is writing its file
C29_Witness ==
  /\ lpc = "done"
  /\ \E g \in Gets : gpc[g] = "done" /\ gstatus[g] = 404
  /\ \E p \in Puts : upc[p] = "copy" /\ uwritten[p] > 0 /\ LockOf(p) \in MuHeld

\* C30: a name that an upload put in the DB got there only with that
\* upload's 201, after its byte count was verified; before, a download of
\* the name answers 404 and the list does not have it.
Visible(n) == n \in DOMAIN DB
C22_EmptyNameRejected ==
  /\ \A p \in Puts :
       (upc[p] \in {"ret", "done"} /\ uname[p] = <<>>) => ustatus[p] = 400
  /\ <<>> \notin DOMAIN DB
  /\ ~Present(dir, FinalPath(<<>>))

\* C23: an upload or download of a name with a parent-directory segment is
\* turned down before any file is touched, and every file lies directly in
\* the storage directory.
Traversal(n) == \E i \in DOMAIN n : n[i] = ".."
Inside(path) ==
  /\ Len(path) > Len(DefaultStoragePath) + 1
  /\ SubSeq(path, 1, Len(DefaultStoragePath) + 1) = DefaultStoragePath \o <<"/">>
  /\ \A i \in (Len(DefaultStoragePath) + 2)..Len(path) : path[i] \notin {"..", "/"}
C23_NoTraversal ==
  /\ \A p \in Puts :
       (upc[p] # "idle" /\ Traversal(uname[p])) =>
         upc[p] = "done" /\ ustatus[p] = 400 /\ ufd[p] = NoFile
  /\ \A g \in Gets :
       (gpc[g] # "idle" /\ Traversal(gname[g])) =>
         gpc[g] = "done" /\ gstatus[g] \in {400, 404} /\ gfd[g] = NoFile
  /\ \A path \in DOMAIN dir : Inside(path)

\* C31: a mutex is held by exactly one upload and an upload holds no other
\* mutex than its FileObject's, so some handler can always step; under fair
\* scheduling every upload in flight returns, with its mutex released, and
\* every upload waiting for a mutex gets it.
Holders == {p \in Puts : HoldsLock(p)}
C31_LockProgress ==
  /\ [](/\ MuHeld = {LockOf(p) : p \in Holders}
        /\ \A p, q \in Holders : LockOf(p) = LockOf(q) => p = q
        /\ (\E p \in Puts : InFlight(p)) => ENABLED NextPuts)
  /\ \A p \in Puts : InFlight(p) ~> (upc[p] = "done" /\ ustatus[p] # 0)
  /\ \A p \in Puts : upc[p] = "lock" ~> upc[p] = "open"
  /\ \A p \in Puts : [](upc[p] = "done" => (LockOf(p) \in MuHeld => \E q \in Holders : LockOf(q) = LockOf(p)))
\* an upload that failed has returned and released the mutex, and another
\* upload of the same FileObject now holds it
C31_Witness ==
  \E p, q \in Puts :
    /\ p # q /\ ufound[p] /\ LockOf(p) = LockOf(q)
    /\ upc[p] = "done" /\ ustatus[p] = 500
    /\ upc[q] \in {"open", "copy"} /\ LockOf(q) \in MuHeld
====
